---- MODULE Spec2Model ----
(***************************************************************************)
(* The plugin manager of the ChRIS store (plugins/services/manager.py): a  *)
(* command line front end that adds, modifies and removes rows of the      *)
(* Plugin table, and the user-detail view as the users' view tests drive   *)
(* it (users/tests/test_views.py).                                         *)
(*                                                                         *)
(* One action models one invocation of PluginManager.run: argument         *)
(* parsing, the dispatch and the whole handler, every database write it    *)
(* makes before it returns or raises included.  The database runs in       *)
(* autocommit mode: a write made before an exception is raised stays.      *)
(***************************************************************************)
EXTENDS Integers, Sequences, FiniteSets, TLC

VARIABLES plugins, nextId, now, last, session, accounts, response

vars == <<plugins, nextId, now, last, session, accounts, response>>

mgrVars == <<plugins, nextId, now, last>>
viewVars == <<session, accounts, response>>

(***************************************************************************)
(* Bounds of the model.                                                    *)
(***************************************************************************)
\* Plugin rows ever created (primary keys 1..MaxPlugins).
MaxPlugins == 2
\* The clock readings timezone.now() can return are 0..MaxTime.
MaxTime == 2

(***************************************************************************)
(* Values.                                                                 *)
(***************************************************************************)
\* Python's None, for an optional string argument that was not supplied.
None == "<None>"

\* The rows of the User table (not managed by the plugin manager).
Users == {"cube", "chris"}
\* Usernames a command line may name: the users and one that does not exist.
Usernames == Users \cup {"ghost"}

Names == {"simplefsapp"}
AddRepos == {"", "https://github.com/x/a"}
ModifyRepos == {"", "https://github.com/x/b"}
AddImages == {"fnndsc/a"}
ModifyImages == {"fnndsc/b"}
NewOwners == {None, ""} \cup Usernames

\* Members of a JSON object: <<key, value>>.
VersionA == <<"version", "1.0">>
VersionB == <<"version", "2.0">>
TypeFs == <<"type", "fs">>

(***************************************************************************)
(* A --descriptorstring argument: absent (None), the empty string, a text  *)
(* that is not JSON, or the text of a JSON object, given by its members    *)
(* in the order they are written (a key may be written twice).             *)
(***************************************************************************)
NoString == [kind |-> "none", members |-> <<>>]
EmptyString == [kind |-> "empty", members |-> <<>>]
Malformed == [kind |-> "malformed", members |-> <<>>]
Object(ms) == [kind |-> "object", members |-> ms]

DescriptorStrings ==
    { NoString, EmptyString, Malformed,
      Object(<<TypeFs>>), Object(<<VersionA, TypeFs, VersionB>>) }

\* The files a --descriptorfile path can name, with their content.
DescriptorPath == "/tmp/simplefsapp.json"
DescriptorFiles == {None, "", DescriptorPath}
FileContent(path) == Object(<<VersionA>>)

\* Python truthiness of an optional string argument.
Truthy(s) == s # None /\ s # ""
TruthyString(d) == d.kind \notin {"none", "empty"}

(***************************************************************************)
(* json.loads and json.dumps.  A parsed object is a dict: one entry per    *)
(* key, in the order the keys first appear, each with the value written    *)
(* last.  It is kept as the sequence of its entries.                       *)
(***************************************************************************)
Keys(ms) == { ms[i][1] : i \in 1..Len(ms) }
HasKey(ms, k) == k \in Keys(ms)
LastIndex(ms, k) == CHOOSE i \in 1..Len(ms) :
                       /\ ms[i][1] = k
                       /\ \A j \in (i+1)..Len(ms) : ms[j][1] # k
\* A slip: a key written twice keeps the value written first.
RECURSIVE DictOf_first_wins(_, _)
DictOf_first_wins(ms, i) ==
    IF i > Len(ms) THEN <<>>
    ELSE IF \E j \in 1..(i-1) : ms[j][1] = ms[i][1]
         THEN DictOf_first_wins(ms, i + 1)
         ELSE << ms[i] >> \o DictOf_first_wins(ms, i + 1)

RECURSIVE DictOf(_, _)
DictOf(ms, i) ==
    IF i > Len(ms) THEN <<>>
    ELSE IF \E j \in 1..(i-1) : ms[j][1] = ms[i][1]
         THEN DictOf(ms, i + 1)
         ELSE <<  <<ms[i][1], ms[LastIndex(ms, ms[i][1])][2]>>  >> \o DictOf(ms, i + 1)

\* A slip: json.loads with the first value of a repeated key.
json_loads_first_wins(text) ==
    IF text.kind = "object"
    THEN [err |-> FALSE, dict |-> DictOf_first_wins(text.members, 1)]
    ELSE [err |-> TRUE, dict |-> <<>>]

\* json.loads(text): [err |-> TRUE] for a JSONDecodeError, else the dict.
json_loads(text) ==
    IF text.kind = "object" THEN [err |-> FALSE, dict |-> DictOf(text.members, 1)]
    ELSE [err |-> TRUE, dict |-> <<>>]
\* json.dumps(dict): the text that writes each entry once, in dict order.
json_dumps(dict) == Object(dict)
\* dict[key]
Lookup(dict, k) == dict[LastIndex(dict, k)][2]

(***************************************************************************)
(* The command lines.  The parsed options of each sub-command, as          *)
(* ArgumentParser.parse_args returns them (PluginManager.__init__).        *)
(***************************************************************************)
AddOptions ==
    [subparser_name : {"add"}, name : Names, owner : Usernames,
     publicrepo : AddRepos, dockerimage : AddImages,
     descriptorfile : DescriptorFiles, descriptorstring : DescriptorStrings]
ModifyOptions ==
    [subparser_name : {"modify"}, id : 1..(MaxPlugins + 1),
     publicrepo : ModifyRepos, dockerimage : ModifyImages, newowner : NewOwners]
RemoveOptions ==
    [subparser_name : {"remove"}, id : 1..(MaxPlugins + 1)]

\* A slip: the two options are plain options, not a mutually exclusive group.
mutually_exclusive_error_no_group(options) == FALSE

\* The --descriptorfile/--descriptorstring group is mutually exclusive:
\* parse_args ends in parser.error when both options are on the command line.
mutually_exclusive_error(options) ==
    options.descriptorfile # None /\ options.descriptorstring # NoString

\* An effect of a handler: how it ended and the tables it leaves behind.
Effect(result, rows, next) == [result |-> result, plugins |-> rows, nextId |-> next]
Raise(exception) == Effect(exception, plugins, nextId)

(***************************************************************************)
(* The plugins app's serializer and model (plugins/serializers.py,         *)
(* plugins/models.py).                                                     *)
(***************************************************************************)
\* The named blob a --descriptorfile path designates.
FileBlob(path) == [name |-> path, content |-> FileContent(path)]

\* PluginSerializer.get_plugin_version_from_app_representation
get_plugin_version_from_app_representation(df) ==
    LET app_repr == json_loads(df.content) IN
    IF app_repr.err THEN [err |-> "MalformedDescriptorError", version |-> ""]
    ELSE IF ~HasKey(app_repr.dict, "version")
         THEN [err |-> "MissingVersionError", version |-> ""]
         ELSE [err |-> "", version |-> Lookup(app_repr.dict, "version")]

\* PluginSerializer.is_valid: every required field is present and not empty.
is_valid(data) ==
    /\ data.name # ""
    /\ data.public_repo # ""
    /\ data.dock_image # ""
    /\ data.version # ""

\* PluginSerializer.validate_new_owner: the user of that name, who must exist.
validate_new_owner(username) ==
    IF username \in Users THEN [err |-> "", user |-> username]
    ELSE [err |-> "OwnerNotFoundError", user |-> username]

\* PluginSerializer.save of a new row: the validated data, the owners handed
\* to save(), a fresh primary key and the dates of its creation.
create(data, owners, t) ==
    [id |-> nextId, name |-> data.name, public_repo |-> data.public_repo,
     dock_image |-> data.dock_image, descriptor_file |-> data.descriptor_file,
     version |-> data.version, owner |-> owners, modification_date |-> t]

\* PluginSerializer.save of an existing row: the validated data written to it.
update(plugin, data) ==
    [plugin EXCEPT !.name = data.name, !.public_repo = data.public_repo,
                   !.dock_image = data.dock_image,
                   !.descriptor_file = data.descriptor_file,
                   !.version = data.version]

\* The table with the row of primary key plugin.id inserted or replaced.
Saved(rows, plugin) ==
    [i \in DOMAIN rows \cup {plugin.id} |-> IF i = plugin.id THEN plugin ELSE rows[i]]
\* The table without the row of primary key id.
Deleted(rows, id) == [i \in DOMAIN rows \ {id} |-> rows[i]]

(***************************************************************************)
(* PluginManager                                                           *)
(***************************************************************************)
\* get_plugin raises NameError when Plugin.objects.get finds no row of that id.
DoesNotExist(id) == id \notin DOMAIN plugins
get_plugin(id) == plugins[id]

get_plugin_descriptor_file(args) ==
    IF Truthy(args.descriptorfile)
    THEN [err |-> "", f |-> FileBlob(args.descriptorfile)]
    ELSE LET app_repr == json_loads(args.descriptorstring) IN
         IF app_repr.err
         THEN [err |-> "JSONDecodeError", f |-> [name |-> "", content |-> Malformed]]
         ELSE [err |-> "",
               f |-> [name |-> args.name \o ".json",
                      content |-> json_dumps(app_repr.dict)]]

\* A slip: the row is saved before the owner is looked up.
add_plugin_saves_before_owner_lookup(args, t) ==
    LET df == get_plugin_descriptor_file(args) IN
    IF df.err # "" THEN Raise(df.err)
    ELSE
    LET v == get_plugin_version_from_app_representation(df.f) IN
    IF v.err # "" THEN Raise(v.err)
    ELSE
    LET data == [name |-> args.name, public_repo |-> args.publicrepo,
                 dock_image |-> args.dockerimage, descriptor_file |-> df.f,
                 version |-> v.version] IN
    IF ~is_valid(data) THEN Raise("ValidationError")
    ELSE IF args.owner \notin Users
         THEN Effect("User.DoesNotExist", Saved(plugins, create(data, {}, t)), nextId + 1)
         ELSE Effect("ok", Saved(plugins, create(data, {args.owner}, t)), nextId + 1)

add_plugin(args, t) ==
    LET df == get_plugin_descriptor_file(args) IN
    IF df.err # "" THEN Raise(df.err)
    ELSE
    LET v == get_plugin_version_from_app_representation(df.f) IN
    IF v.err # "" THEN Raise(v.err)
    ELSE
    LET data == [name |-> args.name, public_repo |-> args.publicrepo,
                 dock_image |-> args.dockerimage, descriptor_file |-> df.f,
                 version |-> v.version] IN
    IF ~is_valid(data) THEN Raise("ValidationError")
    ELSE IF args.owner \notin Users THEN Raise("User.DoesNotExist")
    ELSE Effect("ok", Saved(plugins, create(data, {args.owner}, t)), nextId + 1)

\* The body of modify_plugin, with what a slip in it would change:
\*   inverted:  the membership test of the new owner is inverted;
\*   only_new:  the list of owners starts from the current owners only when the
\*              new owner is not one of them, so naming an owner drops the others;
\*   stamp_in_if: the modification date is stamped inside the "if args.newowner";
\*   wrong_name: the candidate takes its name from the docker image argument.
modify_plugin_with(args, t, slip) ==
    IF DoesNotExist(args.id) THEN Raise("NameError")
    ELSE
    LET plugin == get_plugin(args.id)
        data == [public_repo |-> args.publicrepo, dock_image |-> args.dockerimage,
                 name |-> IF slip = "wrong_name" THEN args.dockerimage ELSE plugin.name,
                 descriptor_file |-> plugin.descriptor_file,
                 version |-> plugin.version]
        stamp(row, given) ==
            IF slip = "stamp_in_if" /\ ~given THEN row
            ELSE [row EXCEPT !.modification_date = t] IN
    IF ~is_valid(data) THEN Raise("ValidationError")
    ELSE
    LET saved == update(plugin, data)
        is_owner == IF slip = "inverted" THEN args.newowner \notin saved.owner
                    ELSE args.newowner \in saved.owner IN
    IF Truthy(args.newowner) /\ (slip = "only_new" \/ ~is_owner)
    THEN LET new_owner == validate_new_owner(args.newowner) IN
         IF new_owner.err # ""
         THEN Effect(new_owner.err, Saved(plugins, saved), nextId)
         ELSE Effect("ok",
                     Saved(plugins,
                           stamp([saved EXCEPT !.owner =
                                     IF slip = "only_new" /\ is_owner
                                     THEN {new_owner.user}
                                     ELSE saved.owner \cup {new_owner.user}], TRUE)),
                     nextId)
    ELSE Effect("ok", Saved(plugins, stamp(saved, Truthy(args.newowner))), nextId)

modify_plugin_inverted_membership(args, t) == modify_plugin_with(args, t, "inverted")
modify_plugin_drops_other_owners(args, t) == modify_plugin_with(args, t, "only_new")
modify_plugin_stamps_inside_if(args, t) == modify_plugin_with(args, t, "stamp_in_if")
modify_plugin_wrong_name(args, t) == modify_plugin_with(args, t, "wrong_name")

modify_plugin(args, t) ==
    IF DoesNotExist(args.id) THEN Raise("NameError")
    ELSE
    LET plugin == get_plugin(args.id)
        data == [public_repo |-> args.publicrepo, dock_image |-> args.dockerimage,
                 name |-> plugin.name, descriptor_file |-> plugin.descriptor_file,
                 version |-> plugin.version] IN
    IF ~is_valid(data) THEN Raise("ValidationError")
    ELSE
    LET saved == update(plugin, data) IN
    IF Truthy(args.newowner) /\ args.newowner \notin saved.owner
    THEN LET new_owner == validate_new_owner(args.newowner) IN
         IF new_owner.err # ""
         THEN Effect(new_owner.err, Saved(plugins, saved), nextId)
         ELSE Effect("ok",
                     Saved(plugins,
                           [saved EXCEPT !.owner = saved.owner \cup {new_owner.user},
                                         !.modification_date = t]),
                     nextId)
    ELSE Effect("ok", Saved(plugins, [saved EXCEPT !.modification_date = t]), nextId)

\* A slip: the delete is not restricted to the row that was looked up.
remove_plugin_deletes_all(args) ==
    IF DoesNotExist(args.id) THEN Raise("NameError")
    ELSE Effect("ok", << >>, nextId)

remove_plugin(args) ==
    IF DoesNotExist(args.id) THEN Raise("NameError")
    ELSE Effect("ok", Deleted(plugins, args.id), nextId)

\* PluginManager.run on the parsed options, at clock reading t.
run(options, t) ==
    IF options.subparser_name = "add"
    THEN IF mutually_exclusive_error(options) THEN Raise("UsageError")
         ELSE IF ~Truthy(options.descriptorfile)
                 /\ ~TruthyString(options.descriptorstring)
              THEN Raise("UsageError")
              ELSE add_plugin(options, t)
    ELSE IF options.subparser_name = "modify" THEN modify_plugin(options, t)
    ELSE remove_plugin(options)

\* The invocation in flight: the options that decide its outcome and how it
\* ended.  No invocation is in flight between two runs of the script.
NoOptions ==
    [subparser_name |-> "", id |-> 0, owner |-> None, newowner |-> None,
     descriptorfile |-> None, descriptorstring |-> NoString]
Invocation(options, result) ==
    [f \in DOMAIN NoOptions \cup {"result"} |->
        IF f = "result" THEN result
        ELSE IF f \in DOMAIN options THEN options[f] ELSE NoOptions[f]]
Idle == Invocation(NoOptions, "")

\* One invocation of the manager (the script's entry point): run(), to its
\* return or to the exception that ends it.
Invoke(options) ==
    /\ last = Idle
    /\ LET eff == run(options, now) IN
       /\ plugins' = eff.plugins
       /\ nextId' = eff.nextId
       /\ last' = Invocation(options, eff.result)
    /\ UNCHANGED <<now, viewVars>>

\* The three sub-commands.  An add is run while primary keys are left; of the
\* ids never assigned, a modify or a remove names the first only (nextId).
Add == \E options \in AddOptions :
          /\ nextId <= MaxPlugins
          /\ Invoke(options)
Modify == \E options \in ModifyOptions :
             /\ options.id <= nextId
             /\ Invoke(options)
Remove == \E options \in RemoveOptions :
             /\ options.id <= nextId
             /\ Invoke(options)

\* The process of the invocation exits.
Exit ==
    /\ last # Idle
    /\ last' = Idle
    /\ UNCHANGED <<plugins, nextId, now, viewVars>>

\* Time passes between two invocations.
Tick ==
    /\ last = Idle
    /\ now < MaxTime
    /\ now' = now + 1
    /\ UNCHANGED <<plugins, nextId, last, viewVars>>

(***************************************************************************)
(* The user-detail resource, as UserDetailViewTests drives it: a test      *)
(* client that logs in and reads (GET) or updates (PUT) the resource of    *)
(* the user with a given primary key.  A user is named by its username.    *)
(***************************************************************************)
Credentials ==
    [cube |-> [email |-> "dev@babymri.org", password |-> "cubepass"],
     other_username |-> [email |-> "dev2@babymri.org", password |-> "other_password"]]
Passwords == {"cubepass", "other_password", "updated_pass"}
\* The templates an update sends.
PutData == { [password |-> "updated_pass", email |-> "dev1@babymri.org"],
             [password |-> "cubepass", email |-> "dev@babymri.org"] }

\* A response, with the request it answers: its method, the primary key it
\* addresses (and whether a user of that key existed) and the user it was made as.
NoResponse == [method |-> "", pk |-> None, exists |-> FALSE, user |-> None,
               status_code |-> 0, username |-> "", email |-> ""]
Response(method, pk, status_code, username, email) ==
    [method |-> method, pk |-> pk, exists |-> pk \in DOMAIN accounts, user |-> session,
     status_code |-> status_code, username |-> username, email |-> email]

\* A slip: the object permission of the view lets every authenticated user in.
permission_any_authenticated(user, pk) == 200

\* The permissions of the user-detail view: the status that lets a request of
\* `user` (None when not authenticated) to the resource of `pk` through (200),
\* or the status that rejects it.
permission(user, pk) ==
    IF user = None THEN 401
    ELSE IF pk \notin DOMAIN accounts THEN 404
    ELSE IF user # pk THEN 403
    ELSE 200

\* UserDetailViewTests.setUp: the user cube exists and nobody is logged in.
setUp ==
    /\ session = None
    /\ accounts = [u \in {"cube"} |-> Credentials[u]]
    /\ response = NoResponse

\* User.objects.create_user, of the user the access-denied test adds.
create_user(username) ==
    /\ username \notin DOMAIN accounts
    /\ accounts' = [u \in DOMAIN accounts \cup {username} |->
                       IF u = username THEN Credentials[u] ELSE accounts[u]]
    /\ UNCHANGED <<session, response, mgrVars>>

\* self.client.login: the session is the user's when the password is right.
login(username, password) ==
    /\ username \in DOMAIN accounts
    /\ session' = IF accounts[username].password = password THEN username ELSE session
    /\ UNCHANGED <<accounts, response, mgrVars>>

\* self.client.get(self.read_update_url)
get(pk) ==
    LET status == permission(session, pk) IN
    /\ response' = IF status = 200
                   THEN Response("GET", pk, 200, pk, accounts[pk].email)
                   ELSE Response("GET", pk, status, "", "")
    /\ UNCHANGED <<session, accounts, mgrVars>>

\* self.client.put(self.read_update_url, data=self.put, ...)
put(pk, data) ==
    LET status == permission(session, pk) IN
    /\ IF status = 200
       THEN /\ accounts' = [accounts EXCEPT ![pk] = data]
            /\ response' = Response("PUT", pk, 200, pk, data.email)
       ELSE /\ accounts' = accounts
            /\ response' = Response("PUT", pk, status, "", "")
    /\ UNCHANGED <<session, mgrVars>>

Init ==
    /\ plugins = << >>
    /\ nextId = 1
    /\ now = 0
    /\ last = Idle
    /\ setUp

Next == Add \/ Modify \/ Remove \/ Exit \/ Tick

Spec == Init /\ [][Next]_vars

NextUsers ==
    \/ \E u \in DOMAIN Credentials : create_user(u)
    \/ \E u \in DOMAIN Credentials, p \in Passwords : login(u, p)
    \/ \E pk \in DOMAIN Credentials : get(pk)
    \/ \E pk \in DOMAIN Credentials, data \in PutData : put(pk, data)

SpecUsers == Init /\ [][NextUsers]_vars

(***************************************************************************)
(* Properties of the plugin manager.  In a step that runs an invocation,   *)
(* last' holds its options and its result, plugins the table before it     *)
(* and plugins' the table after it.                                        *)
(***************************************************************************)
Ran(op) == last = Idle /\ last'.subparser_name = op
Rows == DOMAIN plugins
OtherRowsUntouched(id) ==
    /\ DOMAIN plugins' \ {id} = DOMAIN plugins \ {id}
    /\ \A other \in DOMAIN plugins \ {id} : plugins'[other] = plugins[other]

\* C1: an add command line with both --descriptorfile and --descriptorstring,
\* or with neither, ends in a usage error and leaves the Plugin table as it was.
C1_DescriptorUsageError ==
    [][ (/\ Ran("add")
         /\ (last'.descriptorfile # None) <=> (last'.descriptorstring # NoString))
        => (last'.result = "UsageError" /\ plugins' = plugins /\ nextId' = nextId)
      ]_vars
\* An add with both options was run against a table that holds a row.
C1_Witness ==
    /\ last.subparser_name = "add"
    /\ last.descriptorfile = DescriptorPath
    /\ last.descriptorstring = Object(<<VersionA, TypeFs, VersionB>>)
    /\ last.result = "UsageError"
    /\ Rows # {}

C3_ExistingOwnerNoChange ==
    [][ /\ (/\ Ran("modify")
            /\ last'.id \in Rows
            /\ last'.newowner \in plugins[last'.id].owner)
           => (/\ last'.id \in DOMAIN plugins'
               /\ plugins'[last'.id].owner = plugins[last'.id].owner)
        /\ (/\ Ran("modify")
            /\ last'.result = "ok"
            /\ Truthy(last'.newowner))
           => last'.newowner \in plugins'[last'.id].owner
      ]_vars
\* A modify named an owner of a plugin that has two owners, and succeeded.
C3_Witness ==
    /\ last.subparser_name = "modify"
    /\ last.result = "ok"
    /\ last.newowner = "cube"
    /\ plugins[last.id].owner = {"cube", "chris"}

\* C4: remove of an id with no row fails with the not-found error and changes
\* nothing; remove of an id with a row succeeds, leaves no row of that id and
\* leaves every other row as it was.
C4_Remove ==
    [][ Ran("remove")
        => IF last'.id \notin Rows
           THEN last'.result = "NameError" /\ plugins' = plugins
           ELSE /\ last'.result = "ok"
                /\ last'.id \notin DOMAIN plugins'
                /\ OtherRowsUntouched(last'.id)
      ]_vars
\* A remove succeeded and another row is still there.
C4_Witness ==
    /\ last.subparser_name = "remove"
    /\ last.result = "ok"
    /\ last.id \notin Rows
    /\ Rows # {}

\* C5: every row of the Plugin table has at least one owner, in every state,
\* whatever invocations succeeded or failed before.
C5_AtLeastOneOwner ==
    \A id \in Rows : plugins[id].owner # {}
\* An add that named a user who does not exist has failed.
C5_Witness ==
    /\ last.subparser_name = "add"
    /\ last.owner = "ghost"
    /\ last.result = "User.DoesNotExist"

\* The version a descriptor declares: the value of its "version" member (of
\* the one written last, when it is written more than once).
DeclaredVersion(text) ==
    LET ms == text.members
        i == CHOOSE i \in 1..Len(ms) :
                 /\ ms[i][1] = "version"
                 /\ \A j \in 1..Len(ms) : ms[j][1] = "version" => j <= i
    IN ms[i][2]
SuppliedDescriptor(invocation) ==
    IF invocation.descriptorfile # None
    THEN FileContent(invocation.descriptorfile)
    ELSE invocation.descriptorstring

\* C6: a successful add creates one row, whose version is the version its
\* descriptor declares and whose owner set is the named owner alone.
C6_AddVersionAndOwner ==
    [][ (Ran("add") /\ last'.result = "ok")
        => (/\ DOMAIN plugins' = Rows \cup {nextId}
            /\ nextId \notin Rows
            /\ plugins'[nextId].version = DeclaredVersion(SuppliedDescriptor(last'))
            /\ plugins'[nextId].owner = {last'.owner})
      ]_vars
\* An add with a descriptor string that writes "version" twice succeeded.
C6_Witness ==
    /\ last.subparser_name = "add"
    /\ last.result = "ok"
    /\ last.descriptorstring = Object(<<VersionA, TypeFs, VersionB>>)
    /\ \E id \in Rows : plugins[id].version = "2.0" /\ plugins[id].owner = {"chris"}

\* C7: a modify that fails leaves the plugin's public_repo, docker image,
\* owner set and modification date as they were.
C7_FailedModifyAtomic ==
    [][ (Ran("modify") /\ last'.result # "ok" /\ last'.id \in Rows)
        => (/\ last'.id \in DOMAIN plugins'
            /\ plugins'[last'.id].public_repo = plugins[last'.id].public_repo
            /\ plugins'[last'.id].dock_image = plugins[last'.id].dock_image
            /\ plugins'[last'.id].owner = plugins[last'.id].owner
            /\ plugins'[last'.id].modification_date = plugins[last'.id].modification_date)
      ]_vars

\* C8: every successful modify stamps the plugin's modification date with the
\* time of that modify; and no step ever moves a modification date back.
C8_ModificationDateStamped ==
    [][ /\ (Ran("modify") /\ last'.result = "ok")
           => plugins'[last'.id].modification_date = now
        /\ \A id \in Rows \cap DOMAIN plugins' :
              plugins'[id].modification_date >= plugins[id].modification_date
      ]_vars
\* A modify without --newowner succeeded on a plugin created earlier.
C8_Witness ==
    /\ last.subparser_name = "modify"
    /\ last.result = "ok"
    /\ last.newowner = None
    /\ now > 0
    /\ plugins[last.id].modification_date = now
    /\ \E other \in Rows : plugins[other].modification_date < now

\* C9: a successful modify leaves the plugin's id, name, descriptor file and
\* version as they were, and every other row of the table untouched.
C9_ModifyFrame ==
    [][ (Ran("modify") /\ last'.result = "ok")
        => (/\ last'.id \in Rows
            /\ last'.id \in DOMAIN plugins'
            /\ plugins'[last'.id].id = plugins[last'.id].id
            /\ plugins'[last'.id].name = plugins[last'.id].name
            /\ plugins'[last'.id].descriptor_file = plugins[last'.id].descriptor_file
            /\ plugins'[last'.id].version = plugins[last'.id].version
            /\ OtherRowsUntouched(last'.id))
      ]_vars
\* A modify succeeded on one of two rows and changed its repo and image.
C9_Witness ==
    /\ last.subparser_name = "modify"
    /\ last.result = "ok"
    /\ Cardinality(Rows) = 2
    /\ plugins[last.id].public_repo = "https://github.com/x/b"
    /\ plugins[last.id].dock_image = "fnndsc/b"
    /\ \E other \in Rows : plugins[other].public_repo = "https://github.com/x/a"

====
